---- MODULE Spec2Model ----
(***************************************************************************)
(* Model of extract.py (wabbajack_modlist_extractor): one sequential run   *)
(* of the script, from the parsed command line to process termination.     *)
(* JSON values are tagged records; Python's dict.get, truthiness, the      *)
(* `in` operator and f-string formatting are modelled by what they do.     *)
(***************************************************************************)
EXTENDS Integers, Sequences, FiniteSets, TLC

VARIABLES pc, use_mods, inputIsFile, outKind, outContent, outOpened,
          tempWritten, tmpDir, extracted, everExtracted, inf, data,
          archives, idx, output, warnings, exitCode, err, writeCalls

vars == <<pc, use_mods, inputIsFile, outKind, outContent, outOpened,
          tempWritten, tmpDir, extracted, everExtracted, inf, data,
          archives, idx, output, warnings, exitCode, err, writeCalls>>

\* ---------------------------------------------------------------- bounds
MaxArchives == 3
MaxZipEntries == 3

\* ------------------------------------------------------------- constants
MODLIST_FILENAME == "modlist"
NexusMarker == "NexusDownloader"

\* ----------------------------------------------------------- JSON values
\* A scalar JSON value, or "absent" for a key the object does not have.
FV(k, n, s) == [k |-> k, n |-> n, s |-> s]
Absent == FV("absent", 0, "")
Null == FV("null", 0, "")
Num(n) == FV("num", n, "")
Str(s) == FV("str", 0, s)

Keys == {"$type", "Name", "Author", "FileID", "ModID", "GameName"}

\* A State object given by its six interpreted keys.
Obj(t, name, author, fid, mid, game) ==
    [x \in Keys |-> CASE x = "$type" -> t
                      [] x = "Name" -> name
                      [] x = "Author" -> author
                      [] x = "FileID" -> fid
                      [] x = "ModID" -> mid
                      [] x = "GameName" -> game]
NoKeys == Obj(Absent, Absent, Absent, Absent, Absent, Absent)

\* The value under "State": absent, null, a string, or an object.
StateVal(k, s, f) == [k |-> k, s |-> s, f |-> f]
\* One element of Archives: an object (with its State) or a non-object.
Entry(k, st) == [k |-> k, st |-> st]

NexusType == Str("Wabbajack.Lib.Downloaders.NexusDownloader+State, Wabbajack.Lib")
OtherType == Str("Wabbajack.Lib.Downloaders.HTTPDownloader+State, Wabbajack.Lib")

EntryFoo == Entry("obj", StateVal("obj", "",
    Obj(NexusType, Str("Foo"), Str("Bar"), Num(1), Num(2), Str("skyrimspecialedition"))))
EntryEmptyVals == Entry("obj", StateVal("obj", "",
    Obj(NexusType, Str(""), Str("Qux"), Num(0), Num(4), Str("fallout4"))))
EntryNotObject == Entry("num", StateVal("absent", "", NoKeys))
EntryNoState == Entry("obj", StateVal("absent", "", NoKeys))
EntryEmptyState == Entry("obj", StateVal("obj", "", NoKeys))
EntryStringState == Entry("obj", StateVal("str", "abc", NoKeys))
EntryNoType == Entry("obj", StateVal("obj", "",
    Obj(Absent, Str("Foo"), Str("Bar"), Num(1), Num(2), Str("skyrimspecialedition"))))
EntryEmptyType == Entry("obj", StateVal("obj", "",
    Obj(Str(""), Str("Foo"), Str("Bar"), Num(1), Num(2), Str("skyrimspecialedition"))))
EntryOtherType == Entry("obj", StateVal("obj", "",
    Obj(OtherType, Absent, Absent, Absent, Absent, Absent)))
EntryNumType == Entry("obj", StateVal("obj", "",
    Obj(Num(5), Str("Foo"), Str("Bar"), Num(1), Num(2), Str("skyrimspecialedition"))))
EntryNoName == Entry("obj", StateVal("obj", "",
    Obj(NexusType, Absent, Str("Bar"), Num(1), Num(2), Str("skyrimspecialedition"))))
EntryNullFileID == Entry("obj", StateVal("obj", "",
    Obj(NexusType, Str("Foo"), Str("Bar"), Null, Num(2), Str("skyrimspecialedition"))))

Entries == {EntryFoo, EntryEmptyVals, EntryNotObject, EntryNoState,
            EntryEmptyState, EntryStringState, EntryNoType, EntryEmptyType,
            EntryOtherType, EntryNumType, EntryNoName, EntryNullFileID}

SeqsUpTo(S, n) == UNION {[1..m -> S] : m \in 0..n}

\* What json.load returns: k is the top-level kind, len its number of
\* keys/elements, ak the kind of the value under "Archives", a that value
\* when it is a list.
Manifest(k, len, ak, a) == [k |-> k, len |-> len, ak |-> ak, a |-> a]
NoData == Manifest("none", 0, "absent", <<>>)
Manifests ==
    {Manifest("null", 0, "absent", <<>>),
     Manifest("obj", 0, "absent", <<>>),
     Manifest("list", 0, "absent", <<>>),
     Manifest("list", 1, "absent", <<>>),
     Manifest("obj", 1, "absent", <<>>),
     Manifest("obj", 1, "null", <<>>),
     Manifest("obj", 1, "num", <<>>)}
    \cup {Manifest("obj", 1, "list", a) : a \in SeqsUpTo(Entries, MaxArchives)}

ZipNames == {"modlist", "Modlist", "modlist.json"}
OutKinds == {"absent", "file", "dir", "other"}
OldContent == <<"previous results">>

\* ---------------------------------------------------- Python primitives
\* dict.get(key, None): an absent key reads as None.
Get(f, key) == IF f[key].k = "absent" THEN Null ELSE f[key]

\* bool(v) of a scalar.
Truthy(v) == CASE v.k = "num" -> v.n # 0
               [] v.k = "str" -> v.s # ""
               [] OTHER -> FALSE

\* bool(state) of the value under "State".
StateTruthy(st) == CASE st.k = "str" -> st.s # ""
                     [] st.k = "obj" -> \E x \in Keys : st.f[x].k # "absent"
                     [] OTHER -> FALSE

\* m in s, for strings.
Contains(s, m) ==
    \E i \in 1..(Len(s) - Len(m) + 1) : SubSeq(s, i, i + Len(m) - 1) = m

\* str(v) as an f-string formats it.
PyStr(v) == IF v.k = "num" THEN ToString(v.n) ELSE v.s

\* ---------------------------------------------------------------- ModInfo
Raise(exc, msg) == [exc |-> exc, msg |-> msg, name |-> Null, author |-> Null,
                    file_id |-> Null, mod_id |-> Null, game |-> Null]

ModInfo(e) ==
    IF e.k # "obj" THEN Raise("AttributeError", "no attribute 'get'")
    ELSE LET state == e.st IN
      IF ~StateTruthy(state)
      THEN Raise("AttributeError", "The entry does not contain a State object")
      ELSE IF state.k # "obj" THEN Raise("AttributeError", "no attribute 'get'")
      ELSE LET etype == Get(state.f, "$type") IN
        IF ~Truthy(etype)
        THEN Raise("AttributeError", "The entry does not contain a type")
        ELSE IF etype.k # "str"
        THEN Raise("TypeError", "argument is not iterable")
        ELSE IF ~Contains(etype.s, NexusMarker)
        THEN Raise("ValueError", "Unsupported download type")
        ELSE LET name == Get(state.f, "Name")
                 author == Get(state.f, "Author")
                 file_id == Get(state.f, "FileID")
                 mod_id == Get(state.f, "ModID")
                 game == Get(state.f, "GameName") IN
          IF \E v \in {name, author, file_id, mod_id, game} : v.k = "null"
          THEN Raise("AttributeError", "The entry is missing a required attribute")
          ELSE [exc |-> "none", msg |-> "", name |-> name, author |-> author,
                file_id |-> file_id, mod_id |-> mod_id, game |-> game]

\* url with the two identifiers exchanged.
url_swapped(m) == "https://www.nexusmods.com/" \o PyStr(m.game) \o "/mods/"
                  \o PyStr(m.file_id) \o "?tab=files&file_id=" \o PyStr(m.mod_id)

url(m) == "https://www.nexusmods.com/" \o PyStr(m.game) \o "/mods/"
          \o PyStr(m.mod_id) \o "?tab=files&file_id=" \o PyStr(m.file_id)

mod_url(m) == "https://www.nexusmods.com/" \o PyStr(m.game) \o "/mods/"
              \o PyStr(m.mod_id)

\* The text one outf.write call adds to the output file.
Block(m, mods) == "## '" \o PyStr(m.name) \o "' by " \o PyStr(m.author) \o "\n"
                  \o (IF mods THEN mod_url(m) ELSE url(m)) \o "\n\n"

\* ------------------------------------------------------------------ Init
Init ==
    /\ pc = "check_input"
    /\ use_mods \in BOOLEAN
    /\ inputIsFile \in BOOLEAN
    /\ outKind \in OutKinds
    /\ outContent = IF outKind \in {"file", "other"} THEN OldContent ELSE <<>>
    /\ outOpened = FALSE
    /\ tempWritten = FALSE
    /\ tmpDir = "none"
    /\ extracted = FALSE
    /\ everExtracted = FALSE
    /\ inf = <<>>
    /\ data = NoData
    /\ archives = <<>>
    /\ idx = 0
    /\ output = <<>>
    /\ warnings = <<>>
    /\ exitCode = -1
    /\ err = "none"
    /\ writeCalls = 0

\* A scope exit that leaves the directory behind.
ScopeExitLeak ==
    /\ tmpDir' = tmpDir
    /\ extracted' = extracted

\* Leaving the TemporaryDirectory scope removes the directory and its content.
ScopeExit ==
    /\ tmpDir' = IF tmpDir = "exists" THEN "removed" ELSE tmpDir
    /\ extracted' = FALSE

\* The process ends with status 1: error() calling exit(1), or an exception
\* nobody catches. Both unwind through the with blocks.
Terminate(kind) ==
    /\ pc' = "done"
    /\ exitCode' = 1
    /\ err' = kind
    /\ ScopeExit

error(kind) == Terminate(kind)

Uncaught(kind) == Terminate(kind)

CheckInput ==
    /\ pc = "check_input"
    /\ IF ~inputIsFile
       THEN error("NotFound")
       ELSE /\ pc' = "check_output"
            /\ UNCHANGED <<exitCode, err, tmpDir, extracted>>
    /\ UNCHANGED <<use_mods, inputIsFile, outKind, outContent, outOpened,
                   tempWritten, everExtracted, inf, data, archives, idx,
                   output, warnings, writeCalls>>

CheckOutput ==
    /\ pc = "check_output"
    /\ IF outKind = "file"
       THEN error("OutputExists")
       ELSE /\ pc' = "check_tool"
            /\ UNCHANGED <<exitCode, err, tmpDir, extracted>>
    /\ UNCHANGED <<use_mods, inputIsFile, outKind, outContent, outOpened,
                   tempWritten, everExtracted, inf, data, archives, idx,
                   output, warnings, writeCalls>>

\* which("file"): the tool may be missing from the environment.
CheckTool ==
    /\ pc = "check_tool"
    /\ \E available \in BOOLEAN :
         IF ~available
         THEN error("NoFileTool")
         ELSE /\ pc' = "file_input"
              /\ UNCHANGED <<exitCode, err, tmpDir, extracted>>
    /\ UNCHANGED <<use_mods, inputIsFile, outKind, outContent, outOpened,
                   tempWritten, everExtracted, inf, data, archives, idx,
                   output, warnings, writeCalls>>

\* run(["file", INPUT]): its return code and whether stdout names a ZIP.
FileInput ==
    /\ pc = "file_input"
    /\ \E returncode \in {0, 1}, zip \in BOOLEAN :
         IF returncode # 0 THEN error("FileCommandFailed")
         ELSE IF ~zip THEN error("NotZip")
         ELSE /\ pc' = "tempdir"
              /\ UNCHANGED <<exitCode, err, tmpDir, extracted>>
    /\ UNCHANGED <<use_mods, inputIsFile, outKind, outContent, outOpened,
                   tempWritten, everExtracted, inf, data, archives, idx,
                   output, warnings, writeCalls>>

\* with TemporaryDirectory(...) as tempd, then ZipFile(INPUT) is opened; the
\* constructor raises BadZipFile on a file it cannot read as an archive.
EnterTempDir ==
    /\ pc = "tempdir"
    /\ \/ /\ tmpDir' = "exists"
          /\ \E filelist \in SeqsUpTo(ZipNames, MaxZipEntries) : inf' = filelist
          /\ pc' = "scan"
          /\ UNCHANGED <<extracted, exitCode, err>>
       \/ /\ tmpDir' = "removed"
          /\ pc' = "done"
          /\ exitCode' = 1
          /\ err' = "BadZipFile"
          /\ UNCHANGED <<extracted, inf>>
    /\ UNCHANGED <<use_mods, inputIsFile, outKind, outContent, outOpened,
                   tempWritten, everExtracted, data, archives, idx,
                   output, warnings, writeCalls>>

\* A lookup that accepts any name containing the manifest filename.
MatchNameContains(filename) == Contains(filename, MODLIST_FILENAME)

\* filter(lambda x: x.filename == MODLIST_FILENAME, inf.filelist)
MatchName(filename) == filename = MODLIST_FILENAME

modlist(filelist) == SelectSeq(filelist, MatchName)

\* The lookup, the two checks and the extraction; the ZipFile is closed on
\* the way out.
ScanZip ==
    /\ pc = "scan"
    /\ IF Len(modlist(inf)) = 0
       THEN /\ error("MissingManifest")
            /\ UNCHANGED everExtracted
       ELSE IF Len(modlist(inf)) > 1
       THEN /\ error("AmbiguousManifest")
            /\ UNCHANGED everExtracted
       ELSE /\ extracted' = TRUE
            /\ everExtracted' = TRUE
            /\ pc' = "file_modlist"
            /\ UNCHANGED <<exitCode, err, tmpDir>>
    /\ inf' = <<>>
    /\ UNCHANGED <<use_mods, inputIsFile, outKind, outContent, outOpened,
                   tempWritten, data, archives, idx, output, warnings,
                   writeCalls>>

\* modlist_path.is_file(), then run(["file", modlist_path]).
FileModlist ==
    /\ pc = "file_modlist"
    /\ \E returncode \in {0, 1}, text \in BOOLEAN :
         IF ~extracted THEN error("ManifestGone")
         ELSE IF returncode # 0 THEN error("FileCommandFailed")
         ELSE IF ~text THEN error("NotText")
         ELSE /\ pc' = "load"
              /\ UNCHANGED <<exitCode, err, tmpDir, extracted>>
    /\ UNCHANGED <<use_mods, inputIsFile, outKind, outContent, outOpened,
                   tempWritten, everExtracted, inf, data, archives, idx,
                   output, warnings, writeCalls>>

\* bool(data) of the parsed manifest.
DataTruthy(d) == d.k \in {"obj", "list"} /\ d.len > 0

\* json.load and the emptiness check.
LoadJson ==
    /\ pc = "load"
    /\ \/ /\ error("ParseError")
          /\ UNCHANGED data
       \/ \E d \in Manifests :
            /\ data' = d
            /\ IF ~DataTruthy(d)
               THEN error("EmptyManifest")
               ELSE /\ pc' = "dump"
                    /\ UNCHANGED <<exitCode, err, tmpDir, extracted>>
    /\ UNCHANGED <<use_mods, inputIsFile, outKind, outContent, outOpened,
                   tempWritten, everExtracted, inf, archives, idx, output,
                   warnings, writeCalls>>

\* open("temp", "w") in the working directory and the dump of the manifest;
\* the open may raise OSError.
DumpTemp ==
    /\ pc = "dump"
    /\ \E raises \in BOOLEAN :
         IF raises
         THEN /\ Uncaught("DumpError")
              /\ UNCHANGED tempWritten
         ELSE /\ tempWritten' = TRUE
              /\ pc' = "archives"
              /\ UNCHANGED <<exitCode, err, tmpDir, extracted>>
    /\ UNCHANGED <<use_mods, inputIsFile, outKind, outContent, outOpened,
                   everExtracted, inf, data, archives, idx, output, warnings,
                   writeCalls>>

\* data.get("Archives", None), the two checks and len(archives).
GetArchives ==
    /\ pc = "archives"
    /\ IF data.k # "obj"
       THEN /\ Uncaught("AttributeError")
            /\ UNCHANGED archives
       ELSE IF data.ak \in {"absent", "null"}
       THEN /\ error("MissingArchives")
            /\ UNCHANGED archives
       ELSE IF data.ak = "list" /\ Len(data.a) = 0
       THEN /\ error("NoArchives")
            /\ UNCHANGED archives
       ELSE IF data.ak # "list"
       THEN /\ Uncaught("TypeError")
            /\ UNCHANGED archives
       ELSE /\ archives' = data.a
            /\ pc' = "loop"
            /\ UNCHANGED <<exitCode, err, tmpDir, extracted>>
    /\ UNCHANGED <<use_mods, inputIsFile, outKind, outContent, outOpened,
                   tempWritten, everExtracted, inf, data, idx, output,
                   warnings, writeCalls>>

\* An accumulation that puts the new record first.
AccumulateFront(out, r) == <<r>> \o out

\* output.append(ModInfo(e))
Accumulate(out, r) == Append(out, r)

\* A loop that is left after its first iteration.
LoopOverEarly(i, a) == i >= 1 \/ i = Len(a)

\* The for loop over enumerate(archives) has no entry left.
LoopOver(i, a) == i = Len(a)

\* One iteration of the validation loop.
ValidateEntry ==
    /\ pc = "loop"
    /\ ~LoopOver(idx, archives)
    /\ LET r == ModInfo(archives[idx + 1]) IN
         CASE r.exc = "none" ->
                /\ output' = Accumulate(output, r)
                /\ idx' = idx + 1
                /\ UNCHANGED <<pc, warnings, exitCode, err, tmpDir, extracted>>
           [] r.exc \in {"ValueError", "AttributeError"} ->
                /\ warnings' = Append(warnings, [i |-> idx, msg |-> r.msg])
                /\ idx' = idx + 1
                /\ UNCHANGED <<pc, output, exitCode, err, tmpDir, extracted>>
           [] OTHER ->
                /\ Uncaught(r.exc)
                /\ UNCHANGED <<idx, output, warnings>>
    /\ UNCHANGED <<use_mods, inputIsFile, outKind, outContent, outOpened,
                   tempWritten, everExtracted, inf, data, archives,
                   writeCalls>>

\* open(OUTPUT, "w") once the loop is over.
OpenOutput ==
    /\ pc = "loop"
    /\ LoopOver(idx, archives)
    /\ IF outKind = "dir"
       THEN /\ Uncaught("IsADirectoryError")
            /\ UNCHANGED <<outContent, outOpened>>
       ELSE /\ outOpened' = TRUE
            /\ outContent' = <<>>
            /\ pc' = "write"
            /\ UNCHANGED <<exitCode, err, tmpDir, extracted>>
    /\ UNCHANGED <<use_mods, inputIsFile, outKind, tempWritten, everExtracted,
                   inf, data, archives, idx, output, warnings, writeCalls>>

\* One outf.write call; the call may raise (OSError, UnicodeEncodeError).
WriteEntry ==
    /\ pc = "write"
    /\ writeCalls < Len(output)
    /\ writeCalls' = writeCalls + 1
    /\ \E raises \in BOOLEAN :
         IF raises
         THEN /\ Uncaught("WriteError")
              /\ UNCHANGED outContent
         ELSE /\ outContent' = Append(outContent,
                                      Block(output[writeCalls + 1], use_mods))
              /\ UNCHANGED <<pc, exitCode, err, tmpDir, extracted>>
    /\ UNCHANGED <<use_mods, inputIsFile, outKind, outOpened, tempWritten,
                   everExtracted, inf, data, archives, idx, output, warnings>>

\* The output file is closed, the scope is left and the script ends.
Finish ==
    /\ pc = "write"
    /\ writeCalls = Len(output)
    /\ pc' = "done"
    /\ exitCode' = 0
    /\ ScopeExit
    /\ UNCHANGED <<use_mods, inputIsFile, outKind, outContent, outOpened,
                   tempWritten, everExtracted, inf, data, archives, idx,
                   output, warnings, err, writeCalls>>

Next ==
    \/ CheckInput
    \/ CheckOutput
    \/ CheckTool
    \/ FileInput
    \/ EnterTempDir
    \/ ScanZip
    \/ FileModlist
    \/ LoadJson
    \/ DumpTemp
    \/ GetArchives
    \/ ValidateEntry
    \/ OpenOutput
    \/ WriteEntry
    \/ Finish

Spec == Init /\ [][Next]_vars

TypeOK ==
    /\ pc \in {"check_input", "check_output", "check_tool", "file_input",
               "tempdir", "scan", "file_modlist", "load", "dump", "archives",
               "loop", "write", "done"}
    /\ exitCode \in {-1, 0, 1}
    /\ idx \in 0..Len(archives)
    /\ writeCalls \in 0..Len(output)

\* ============================================================ properties
\* The record shape of section 4.3, read off the raw entry.
FiveFields == {"Name", "Author", "FileID", "ModID", "GameName"}

StateMissing(e) ==
    \/ e.k # "obj"
    \/ e.st.k \in {"absent", "null"}
    \/ e.st.k = "str" /\ e.st.s = ""
    \/ e.st.k = "obj" /\ \A x \in Keys : e.st.f[x] = Absent

Discriminator(e) == IF e.st.k = "obj" THEN e.st.f["$type"] ELSE Absent

TypeMissing(e) ==
    Discriminator(e) \in {Absent, Null, Str(""), Num(0)}

HasMarker(e) ==
    /\ Discriminator(e).k = "str"
    /\ Contains(Discriminator(e).s, "NexusDownloader")

FieldsMissing(e) == \E x \in FiveFields : e.st.f[x] \in {Absent, Null}

SpecOutcome(e) ==
    CASE StateMissing(e) -> "MissingState"
      [] ~StateMissing(e) /\ TypeMissing(e) -> "MissingType"
      [] ~StateMissing(e) /\ ~TypeMissing(e) /\ ~HasMarker(e) -> "UnsupportedType"
      [] ~StateMissing(e) /\ ~TypeMissing(e) /\ HasMarker(e) /\ FieldsMissing(e)
           -> "MissingFields"
      [] OTHER -> "ModRecord"

\* Indices of the entries of a that pass validation, in increasing order.
RECURSIVE AcceptedIdx(_, _)
AcceptedIdx(a, n) ==
    IF n = 0 THEN <<>>
    ELSE IF SpecOutcome(a[n]) = "ModRecord"
         THEN Append(AcceptedIdx(a, n - 1), n)
         ELSE AcceptedIdx(a, n - 1)

Accepted(a) == AcceptedIdx(a, Len(a))

Shown(v) == IF v.k = "num" THEN ToString(v.n) ELSE v.s

Heading(e) ==
    "## '" \o Shown(e.st.f["Name"]) \o "' by " \o Shown(e.st.f["Author"])

FileUrl(e) ==
    "https://www.nexusmods.com/" \o Shown(e.st.f["GameName"]) \o "/mods/"
    \o Shown(e.st.f["ModID"]) \o "?tab=files&file_id=" \o Shown(e.st.f["FileID"])

ModUrl(e) ==
    "https://www.nexusmods.com/" \o Shown(e.st.f["GameName"]) \o "/mods/"
    \o Shown(e.st.f["ModID"])

ExpectedBlock(e, mods) ==
    Heading(e) \o "\n" \o (IF mods THEN ModUrl(e) ELSE FileUrl(e)) \o "\n\n"

ExpectedBlocks(a, mods) ==
    [j \in 1..Len(Accepted(a)) |-> ExpectedBlock(a[Accepted(a)[j]], mods)]

IsPrefix(p, q) == Len(p) <= Len(q) /\ \A j \in 1..Len(p) : p[j] = q[j]

IOErrors == {"IsADirectoryError", "WriteError", "DumpError"}

Succeeded == pc = "done" /\ exitCode = 0

\* C1: the blocks in the output file are the accepted entries of Archives,
\* one block each, in Archives order: while the write is under way they are
\* a prefix of that sequence, and when the run has completed the write they
\* are all of it (so their number is <= N).
C1_BlocksAreAcceptedSubsequence ==
    outOpened =>
      /\ IsPrefix(outContent, ExpectedBlocks(archives, use_mods))
      /\ Len(outContent) <= Len(archives)
      /\ Succeeded => outContent = ExpectedBlocks(archives, use_mods)

C1_Witness ==
    /\ Succeeded
    /\ Len(archives) = 3
    /\ Accepted(archives) = <<1, 3>>
    /\ archives[1] # archives[3]
    /\ Len(outContent) = 2

\* C2 (as claimed): when the run got to the loop and no file operation
\* failed, every rejected entry i has a warning naming i and no block, all
\* entries were validated, the output was written and the exit status is 0.
C2_RejectionNeverFatal ==
    (pc = "done" /\ archives # <<>> /\ err \notin IOErrors) =>
      \A i \in 1..Len(archives) :
        SpecOutcome(archives[i]) # "ModRecord" =>
          /\ \E w \in 1..Len(warnings) : warnings[w].i = i - 1
          /\ idx = Len(archives)
          /\ outOpened
          /\ Len(outContent) = Len(Accepted(archives))
          /\ exitCode = 0

\* C3: every block is the heading with the record's name and author, then
\* the file URL of that record (flag not set) or its mod URL (flag set).
C3_BlockUrlFormat ==
    outOpened =>
      \A j \in 1..Len(outContent) :
        LET e == archives[Accepted(archives)[j]] IN
          outContent[j] =
            "## '" \o Shown(e.st.f["Name"]) \o "' by "
            \o Shown(e.st.f["Author"]) \o "\n"
            \o (IF use_mods THEN ModUrl(e) ELSE FileUrl(e)) \o "\n\n"

C3_Witness ==
    /\ Succeeded
    /\ ~use_mods
    /\ archives = <<EntryFoo, EntryOtherType>>
    /\ outContent = <<"## 'Foo' by Bar\nhttps://www.nexusmods.com/skyrimspecialedition/mods/2?tab=files&file_id=1\n\n">>

InitialContent == IF outKind \in {"file", "other"} THEN OldContent ELSE <<>>

\* C4 (as claimed): a run whose OUTPUT path exists at the start, whatever
\* it is, ends with a nonzero status, leaves the existing output as it was
\* and creates no other file or directory.
C4_ExistingOutputFatal ==
    (pc = "done" /\ outKind # "absent") =>
      /\ exitCode # 0
      /\ outContent = InitialContent
      /\ ~outOpened
      /\ ~tempWritten
      /\ tmpDir # "exists"

\* Number of entries named exactly as the manifest file.
ExactMatches(filelist) ==
    Cardinality({j \in DOMAIN filelist : filelist[j] = "modlist"})

NothingDone ==
    /\ ~everExtracted'
    /\ data' = NoData
    /\ idx' = 0
    /\ ~outOpened'
    /\ outContent' = outContent

\* C5: the locating step ends the run with the missing-manifest error when
\* no entry is named exactly "modlist", with the ambiguous-manifest error
\* when two or more are, and extracts only when exactly one is; in the two
\* fatal cases nothing is extracted, parsed or written.
C5_ManifestCountDecides ==
    [][pc = "scan" =>
        /\ ExactMatches(inf) = 0 =>
             /\ pc' = "done" /\ exitCode' = 1 /\ err' = "MissingManifest"
             /\ NothingDone
        /\ ExactMatches(inf) >= 2 =>
             /\ pc' = "done" /\ exitCode' = 1 /\ err' = "AmbiguousManifest"
             /\ NothingDone
        /\ ExactMatches(inf) = 1 =>
             /\ pc' = "file_modlist" /\ extracted' /\ exitCode' = -1]_vars

C5_Witness ==
    /\ pc = "done"
    /\ err = "AmbiguousManifest"
    /\ exitCode = 1
    /\ ~everExtracted

\* C6 (as claimed): when the run is over, the only thing it created that
\* still exists is the output file: no "temp" file, no temporary directory.
C6_OnlyOutputPersists ==
    pc = "done" => (~tempWritten /\ tmpDir # "exists")

\* C7: when the process has terminated, a temporary directory the run
\* created is gone, and so is the manifest extracted into it.
C7_TempDirRemoved ==
    pc = "done" => (tmpDir # "exists" /\ ~extracted)

C7_Witness ==
    /\ pc = "done"
    /\ everExtracted
    /\ tmpDir = "removed"
    /\ err = "TypeError"

\* C8 (as claimed): the output is not opened before validation is over, a
\* run that ends with a fatal error leaves no output file, and the content
\* comes from a single write.
C8_SingleWriteAtEnd ==
    /\ outOpened => (pc \in {"write", "done"} /\ idx = Len(archives))
    /\ (pc = "done" /\ exitCode # 0) => ~outOpened
    /\ writeCalls <= 1

\* C8 (amended): the output is not opened or written before validation of
\* every entry is over; a run that ends fatally before the output is opened
\* leaves no output file; the content comes from one write call per
\* accepted record, in order, and only a failure of one of those calls ends
\* a run fatally with the output file already there.
C8_WritesAfterValidation ==
    /\ outOpened => (pc \in {"write", "done"} /\ idx = Len(archives)
                     /\ Len(output) = Len(Accepted(archives)))
    /\ ~outOpened => (outContent = InitialContent /\ writeCalls = 0)
    /\ (pc = "done" /\ exitCode # 0 /\ err # "WriteError") => ~outOpened
    /\ writeCalls <= Len(output)
    /\ outOpened => (Len(outContent) <= writeCalls
                     /\ Len(outContent) >= writeCalls - 1)
    /\ Succeeded => (writeCalls = Len(output) /\ Len(outContent) = writeCalls)

C8_Witness ==
    /\ Succeeded
    /\ outKind = "absent"
    /\ writeCalls = 2
    /\ Len(archives) = 3

\* C9 (as claimed): once the manifest is parsed and no file operation
\* failed, an empty or null value gives the empty-manifest error, else an absent (or null) Archives key
\* the missing-Archives error, else an empty Archives the no-archives
\* error, each with status 1 and no entry validated; else validation starts.
C9_ManifestOutcome ==
    (pc = "done" /\ data # NoData /\ err \notin IOErrors) =>
      IF data.k = "null" \/ data.len = 0
      THEN err = "EmptyManifest" /\ exitCode = 1 /\ idx = 0
      ELSE IF data.ak \in {"absent", "null"}
      THEN err = "MissingArchives" /\ exitCode = 1 /\ idx = 0
      ELSE IF data.ak = "list" /\ Len(data.a) = 0
      THEN err = "NoArchives" /\ exitCode = 1 /\ idx = 0
      ELSE archives = data.a /\ (idx > 0 \/ err = "TypeError")

MessageOf(kind) ==
    CASE kind = "MissingState" -> {"The entry does not contain a State object",
                                   "no attribute 'get'"}
      [] kind = "MissingType" -> {"The entry does not contain a type",
                                  "no attribute 'get'"}
      [] kind = "UnsupportedType" -> {"Unsupported download type"}
      [] kind = "MissingFields" -> {"The entry is missing a required attribute"}
      [] OTHER -> {}

\* C10 (as claimed): every entry of a run that got through the loop has the
\* outcome the ordered rules give it: a rejection of that kind, or a record
\* holding its five values unchanged.
C10_ValidatorOutcome ==
    (pc = "done" /\ archives # <<>> /\ err \notin IOErrors) =>
      /\ idx = Len(archives)
      /\ Len(output) = Len(Accepted(archives))
      /\ \A i \in 1..Len(archives) :
           SpecOutcome(archives[i]) # "ModRecord" =>
             \E w \in 1..Len(warnings) :
                /\ warnings[w].i = i - 1
                /\ warnings[w].msg \in MessageOf(SpecOutcome(archives[i]))
      /\ \A j \in 1..Len(output) :
           LET f == archives[Accepted(archives)[j]].st.f IN
             /\ output[j].name = f["Name"]
             /\ output[j].author = f["Author"]
             /\ output[j].file_id = f["FileID"]
             /\ output[j].mod_id = f["ModID"]
             /\ output[j].game = f["GameName"]
====
